---- MODULE Spec2Model ----
(***************************************************************************)
(* A model of mesher.Builder (src/mesher.py): rings and the R-tree index   *)
(* filled by load, the line mesh built by build_linework, and the          *)
(* sidedness sampling of _get_left_right / _line_center_sample.            *)
(*                                                                         *)
(* Geometry is exact integer geometry on rectilinear (axis-parallel)       *)
(* lines.  One coordinate unit of the program is Unit model units, so the  *)
(* program's 0.01 is 1 and its 0.02 is 2.  Input vertices lie on the       *)
(* coarse grid (multiples of Unit); sample points lie between.             *)
(* A geometry is its coordinate sequence: a Point is a one-vertex          *)
(* sequence, a LineString / LinearRing a sequence of vertices.             *)
(*                                                                         *)
(* What the libraries leave open is fixed as follows.  The R-tree returns  *)
(* its entries in insertion order and keeps entries inserted under an id   *)
(* already in use.  linemerge starts a line at its smaller end node and an *)
(* isolated loop at its smallest vertex; flip, chosen once, reverses every *)
(* merged line, so both directions are covered.  The MD5 digest of a       *)
(* point's WKT text is taken to be distinct for distinct coordinates.      *)
(***************************************************************************)
EXTENDS Integers, Sequences, FiniteSets, TLC

VARIABLES
    rings,          \* self.rings : id -> LinearRing            (line 18)
    index,          \* self.index : the R-tree's entries         (line 20)
    merged,         \* self.merged: ordered dict hash -> edge    (line 19)
    flip,           \* which of the two directions linemerge gives its lines
    pc,             \* position in build_linework: idle / ring / line
    propertyname,   \* build_linework's argument
    cur,            \* build_linework: position in self.rings.items()
    meshlines,      \* build_linework: the local "merged" of the else-branch
    li,             \* build_linework: position in "for meshline in merged"
    nloads,         \* history: number of load calls so far
    extracted,      \* history: number of rings extracted over all load calls
    passes,         \* history: one record per finished build_linework pass
    owner,          \* history: hash -> first ring that stored it in this pass
    arg,            \* a line handed to the sampling functions
    ret             \* what the sampling functions returned for arg

vars == <<rings, index, merged, flip, pc, propertyname, cur, meshlines, li,
          nloads, extracted, passes, owner, arg, ret>>

Unit == 100
OFFSET == 1
BUFFER == 2
MaxLoads == 2
MaxBuilds == 2
GridW == 2
GridH == 1
MaxLineLen == 4
None == "None"
NoLine == <<>>

(***************************************************************************)
(* Arithmetic helpers.                                                     *)
(***************************************************************************)
Abs(n) == IF n < 0 THEN -n ELSE n
Sign(n) == IF n < 0 THEN -1 ELSE IF n > 0 THEN 1 ELSE 0
Min(a, b) == IF a <= b THEN a ELSE b
Max(a, b) == IF a >= b THEN a ELSE b
SetMin(S) == CHOOSE m \in S : \A n \in S : m <= n
SetMax(S) == CHOOSE m \in S : \A n \in S : m >= n
Reverse(s) == [i \in 1..Len(s) |-> s[Len(s) + 1 - i]]

(***************************************************************************)
(* The geometry collaborator (shapely), on rectilinear coordinates.        *)
(***************************************************************************)
Point(p) == <<p>>

\* geom.bounds : (minx, miny, maxx, maxy)
bounds(g) ==
    LET xs == {g[i][1] : i \in DOMAIN g}
        ys == {g[i][2] : i \in DOMAIN g}
    IN  <<SetMin(xs), SetMin(ys), SetMax(xs), SetMax(ys)>>

\* the R-tree's test: closed boxes overlap
BoxIntersects(a, b) ==
    a[1] <= b[3] /\ b[1] <= a[3] /\ a[2] <= b[4] /\ b[2] <= a[4]

\* length of the axis-parallel segment a-b
SegLen(a, b) == Abs(a[1] - b[1]) + Abs(a[2] - b[2])

\* p lies on the closed axis-parallel segment a-b
OnSeg(p, a, b) ==
    /\ Min(a[1], b[1]) <= p[1] /\ p[1] <= Max(a[1], b[1])
    /\ Min(a[2], b[2]) <= p[2] /\ p[2] <= Max(a[2], b[2])

\* two closed axis-parallel segments share a point
SegIntersects(a, b, c, d) ==
    BoxIntersects(bounds(<<a, b>>), bounds(<<c, d>>))

\* p lies on the line
OnLine(p, line) ==
    \E i \in 1..(Len(line) - 1) : OnSeg(p, line[i], line[i + 1])

\* p lies strictly inside the closed ring (crossing number of the ray to +x)
InsideRing(p, ring) ==
    /\ ~OnLine(p, ring)
    /\ Cardinality({i \in 1..(Len(ring) - 1) :
            /\ ring[i][1] = ring[i + 1][1]
            /\ ring[i][1] > p[1]
            /\ Min(ring[i][2], ring[i + 1][2]) <= p[2]
            /\ p[2] < Max(ring[i][2], ring[i + 1][2])}) % 2 = 1

\* the polygon (a closed region, holes open) holds p
PolygonCovers(poly, p) ==
    /\ OnLine(p, poly.exterior) \/ InsideRing(p, poly.exterior)
    /\ \A h \in DOMAIN poly.interiors : ~InsideRing(p, poly.interiors[h])

PolygonRings(poly) == <<poly.exterior>> \o poly.interiors

\* obj.intersects(polygon), obj a point or a line
intersects_polygon(obj, poly) ==
    \/ PolygonCovers(poly, obj[1])
    \/ \E r \in DOMAIN PolygonRings(poly) :
         LET ring == PolygonRings(poly)[r] IN
         \E i \in 1..(Len(obj) - 1), j \in 1..(Len(ring) - 1) :
            SegIntersects(obj[i], obj[i + 1], ring[j], ring[j + 1])

\* ring.intersects(Point(p))
intersects_point(ring, p) == OnLine(p, ring)

\* squared distance from p to the axis-parallel segment a-b
SegDist2(p, a, b) ==
    LET dx == Max(Max(Min(a[1], b[1]) - p[1], p[1] - Max(a[1], b[1])), 0)
        dy == Max(Max(Min(a[2], b[2]) - p[2], p[2] - Max(a[2], b[2])), 0)
    IN  dx * dx + dy * dy

\* ring.intersects(Point(p).buffer(r)): the ring comes within r of p
intersects_buffer(ring, p, r) ==
    \E i \in 1..(Len(ring) - 1) : SegDist2(p, ring[i], ring[i + 1]) <= r * r

\* distance along the line from its start to its i-th vertex
RECURSIVE CumLen(_, _)
CumLen(line, i) ==
    IF i <= 1 THEN 0 ELSE CumLen(line, i - 1) + SegLen(line[i - 1], line[i])

\* line.length
length(line) == CumLen(line, Len(line))

\* line.interpolate(d): the point at distance d along the line
interpolate(line, d) ==
    IF Len(line) = 1 \/ d <= 0 THEN line[1]
    ELSE LET i == SetMin({k \in 1..(Len(line) - 1) : CumLen(line, k + 1) >= d})
             t == d - CumLen(line, i)
             a == line[i]
             b == line[i + 1]
         IN  <<a[1] + Sign(b[1] - a[1]) * t, a[2] + Sign(b[2] - a[2]) * t>>

\* line.project(Point(p)) for p on the line: the distance along the line of
\* the first place where the line passes through p
project(line, p) ==
    LET i == SetMin({k \in 1..(Len(line) - 1) : OnSeg(p, line[k], line[k + 1])})
    IN  CumLen(line, i) + SegLen(line[i], p)

\* segment.parallel_offset(dist, side) of a two-point segment
parallel_offset(seg, dist, side) ==
    LET dx == Sign(seg[2][1] - seg[1][1])
        dy == Sign(seg[2][2] - seg[1][2])
        nx == IF side = "left" THEN -dy ELSE dy
        ny == IF side = "left" THEN dx ELSE -dx
    IN  <<<<seg[1][1] + dist * nx, seg[1][2] + dist * ny>>,
          <<seg[2][1] + dist * nx, seg[2][2] + dist * ny>>>>

(***************************************************************************)
(* unary_union and linemerge on rectilinear rings.  The union is the noded *)
(* and dissolved linework: its components are the straight pieces between  *)
(* consecutive node points, a node point being a vertex of an input ring   *)
(* or a point where the linework crosses.                                  *)
(***************************************************************************)
PtLess(p, q) == p[1] < q[1] \/ (p[1] = q[1] /\ p[2] < q[2])

PairLess(s, t) == PtLess(s[1], t[1]) \/ (s[1] = t[1] /\ PtLess(s[2], t[2]))

\* the unit grid edges covered by the axis-parallel segment a-b
UnitEdgesOfSeg(a, b) ==
    IF a[1] = b[1]
    THEN {<<<<a[1], k * Unit>>, <<a[1], (k + 1) * Unit>>>> :
            k \in (Min(a[2], b[2]) \div Unit)..((Max(a[2], b[2]) \div Unit) - 1)}
    ELSE {<<<<k * Unit, a[2]>>, <<(k + 1) * Unit, a[2]>>>> :
            k \in (Min(a[1], b[1]) \div Unit)..((Max(a[1], b[1]) \div Unit) - 1)}

UnitEdges(ringseq) ==
    UNION {UNION {UnitEdgesOfSeg(ringseq[r][i], ringseq[r][i + 1]) :
                    i \in 1..(Len(ringseq[r]) - 1)} : r \in DOMAIN ringseq}

\* the node points of the union: every input vertex, every crossing
NodePoints(ringseq) ==
    LET E == UnitEdges(ringseq)
        pts == UNION {{e[1], e[2]} : e \in E}
        V == UNION {{ringseq[r][i] : i \in DOMAIN ringseq[r]} : r \in DOMAIN ringseq}
    IN  V \cup {p \in pts : Cardinality({e \in E : p = e[1] \/ p = e[2]}) # 2}

\* unary_union(rings_to_merge), dumped to its single lines
unary_union(ringseq) ==
    LET W == NodePoints(ringseq)
        Pieces(a, b) ==
            LET on == {w \in W : OnSeg(w, a, b)}
            IN  {<<p, q>> \in on \X on :
                    /\ PtLess(p, q)
                    /\ ~\E m \in on : PtLess(p, m) /\ PtLess(m, q)}
    IN  UNION {UNION {Pieces(ringseq[r][i], ringseq[r][i + 1]) :
                        i \in 1..(Len(ringseq[r]) - 1)} : r \in DOMAIN ringseq}

\* the other ends of the lines that end at n
Nbrs(lines, n) ==
    {l[2] : l \in {k \in lines : k[1] = n}} \cup {l[1] : l \in {k \in lines : k[2] = n}}

\* follow the lines from path's last point through nodes of degree 2
RECURSIVE Trace(_, _)
Trace(lines, path) ==
    LET last == path[Len(path)]
        prev == path[Len(path) - 1]
        nb == Nbrs(lines, last)
    IN  IF Cardinality(nb) # 2 \/ last = path[1] THEN path
        ELSE Trace(lines, Append(path, CHOOSE m \in nb : m # prev))

RECURSIVE SortStarts(_)
SortStarts(S) ==
    IF S = {} THEN <<>>
    ELSE LET s == CHOOSE x \in S : \A y \in S : x = y \/ PairLess(x, y)
         IN  <<s>> \o SortStarts(S \ {s})

RECURSIVE Loops(_, _)
Loops(lines, rest) ==
    IF rest = {} THEN <<>>
    ELSE LET n == CHOOSE x \in rest : \A y \in rest : x = y \/ PtLess(x, y)
             nb == Nbrs(lines, n)
             m == CHOOSE x \in nb : \A y \in nb : x = y \/ PtLess(x, y)
             path == Trace(lines, <<n, m>>)
         IN  <<path>> \o Loops(lines, rest \ {path[i] : i \in DOMAIN path})

\* shapely.ops.linemerge: the maximal lines through nodes of degree 2; first
\* the lines between nodes of another degree, then the isolated loops
linemerge(lines) ==
    LET nodes == UNION {{l[1], l[2]} : l \in lines}
        ends == {n \in nodes : Cardinality(Nbrs(lines, n)) # 2}
        starts == {<<n, m>> \in ends \X nodes : m \in Nbrs(lines, n)}
        kept == {s \in starts :
                    LET path == Trace(lines, s)
                        back == <<path[Len(path)], path[Len(path) - 1]>>
                    IN  s = back \/ PairLess(s, back)}
        order == SortStarts(kept)
        chains == [i \in DOMAIN order |-> Trace(lines, order[i])]
        covered == UNION {{chains[i][j] : j \in DOMAIN chains[i]} : i \in DOMAIN chains}
        all == chains \o Loops(lines, nodes \ covered)
    IN  [i \in DOMAIN all |-> IF flip THEN Reverse(all[i]) ELSE all[i]]

(***************************************************************************)
(* The vector sources load can read: each file a sequence of features.     *)
(***************************************************************************)
Pt(x, y) == <<x * Unit, y * Unit>>

\* the ring of the box (x0,y0)-(x1,y1), counter-clockwise from (x0,y0)
Box(x0, y0, x1, y1) ==
    <<Pt(x0, y0), Pt(x1, y0), Pt(x1, y1), Pt(x0, y1), Pt(x0, y0)>>

Polygon(shell, holes) ==
    [type |-> "Polygon", exterior |-> shell, interiors |-> holes, geoms |-> <<>>]

MultiPolygon(polygons) ==
    [type |-> "MultiPolygon", exterior |-> <<>>, interiors |-> <<>>, geoms |-> polygons]

Feature(geom, name, kood) ==
    [geometry |-> geom, properties |-> [NAME |-> name, KOOD |-> kood]]

PropertyNames == {"NAME", "KOOD"}

\* str.lower() on the property names in use
lower(name) == IF name = "NAME" THEN "name" ELSE IF name = "KOOD" THEN "kood" ELSE name

SquareA == Polygon(Box(0, 0, 1, 1), <<>>)
SquareB == Polygon(Box(1, 0, 2, 1), <<>>)
Holed == Polygon(Box(0, 0, 3, 3), <<Reverse(Box(1, 1, 2, 2))>>)
Island == MultiPolygon(<<Polygon(Box(5, 0, 6, 1), <<>>), Polygon(Box(5, 2, 6, 3), <<>>)>>)
Strip == Polygon(<<Pt(0, 1), Pt(1, 1), Pt(2, 1), Pt(2, 2), Pt(0, 2), Pt(0, 1)>>, <<>>)

Files ==
    [squares |-> <<Feature(SquareA, "A", "01"), Feature(SquareB, "B", "02")>>,
     holed   |-> <<Feature(Holed, "H", "03")>>,
     island  |-> <<Feature(Island, "I", "04")>>,
     strip   |-> <<Feature(Strip, "S", "05"), Feature(SquareA, "A", "01"),
                   Feature(SquareB, "B", "02")>>]

FileNames == DOMAIN Files

(***************************************************************************)
(* Builder's helpers.                                                      *)
(***************************************************************************)
RECURSIVE Flatten(_)
Flatten(ss) == IF ss = <<>> THEN <<>> ELSE Head(ss) \o Flatten(Tail(ss))

\* Builder._dump
_dump(shape) == IF shape.type = "MultiPolygon" THEN shape.geoms ELSE <<shape>>

\* Builder._dump_rings
_dump_rings(geom) == <<geom.exterior>> \o geom.interiors

\* the (ring, feature, geom) triples of load's three nested loops, in order
Extract(src) ==
    Flatten([i \in DOMAIN src |->
        Flatten([g \in DOMAIN _dump(src[i].geometry) |->
            LET geom == _dump(src[i].geometry)[g] IN
            [r \in DOMAIN _dump_rings(geom) |->
                [ring |-> _dump_rings(geom)[r],
                 properties |-> src[i].properties,
                 geometry |-> geom]]])])

\* load's "idx = 0"
LoadStartIdx == 0

\* self.rings after load(fp)
LoadRings(rs, fp) ==
    LET ex == Extract(Files[fp])
        ids == LoadStartIdx..(LoadStartIdx + Len(ex) - 1)
    IN  [i \in (DOMAIN rs) \cup ids |->
            IF i \in ids THEN ex[i - LoadStartIdx + 1].ring ELSE rs[i]]

\* self.index after load(fp)
LoadIndex(ix, fp) ==
    LET ex == Extract(Files[fp])
    IN  ix \o [k \in DOMAIN ex |->
                [id |-> LoadStartIdx + k - 1,
                 bounds |-> bounds(ex[k].ring),
                 obj |-> [id |-> LoadStartIdx + k - 1,
                          properties |-> ex[k].properties,
                          geometry |-> ex[k].geometry]]]

\* mutant: the index lookup without the verification
_intersects_bbox(obj) ==
    LET hits == SelectSeq(index, LAMBDA e : BoxIntersects(bounds(obj), e.bounds))
    IN  [i \in DOMAIN hits |-> hits[i].obj]

\* Builder._intersects: the payloads, in the index's order, whose box meets
\* obj's box and whose polygon obj intersects
_intersects(obj) ==
    LET hits == SelectSeq(index, LAMBDA e :
                    BoxIntersects(bounds(obj), e.bounds)
                    /\ intersects_polygon(obj, e.obj.geometry))
    IN  [i \in DOMAIN hits |-> hits[i].obj]

\* Builder._get_center: line.interpolate(0.5, normalized=True)
_get_center(line) == interpolate(line, length(line) \div 2)

\* Point.wkt: the point's coordinate text
wkt(p) == <<"POINT", p[1], p[2]>>

\* Builder._get_md5_hash
_get_md5_hash(s) == <<"md5", s>>

\* Builder._line_center_sample; NoLine is Python's None
_line_center_sample(line) ==
    LET coords == line
        hits == {i \in DOMAIN coords : 2 * project(line, coords[i]) > length(line)}
    IN  IF Len(coords) = 2 THEN line
        ELSE IF hits = {} THEN NoLine
        ELSE <<coords[SetMin(hits) - 1], coords[SetMin(hits)]>>

\* Builder._get_side
_get_side(pnt, name) ==
    LET found == _intersects(pnt)
    IN  IF found = <<>> THEN None ELSE found[1].properties[name]

\* mutant: both sides sampled on the line itself, without the offset
_get_left_right_nooffset(hash, line, name) ==
    LET center_sample == _line_center_sample(line)
    IN  IF center_sample = NoLine THEN [error |-> "AttributeError"]
        ELSE ("hash" :> hash)
             @@ (("left_" \o lower(name)) :> _get_side(Point(_get_center(center_sample)), name))
             @@ (("right_" \o lower(name)) :> _get_side(Point(_get_center(center_sample)), name))

\* Builder._get_left_right; None has no parallel_offset: AttributeError
_get_left_right(hash, line, name) ==
    LET center_sample == _line_center_sample(line)
        left == _get_center(parallel_offset(center_sample, OFFSET, "left"))
        right == _get_center(parallel_offset(center_sample, OFFSET, "right"))
    IN  IF center_sample = NoLine THEN [error |-> "AttributeError"]
        ELSE ("hash" :> hash)
             @@ (("left_" \o lower(name)) :> _get_side(Point(left), name))
             @@ (("right_" \o lower(name)) :> _get_side(Point(right), name))

\* Builder._linemerge
_linemerge(lines_to_merge) == linemerge(lines_to_merge)

(***************************************************************************)
(* self.merged, a dict in insertion order: a sequence of (key, value).     *)
(***************************************************************************)
Has(m, h) == \E i \in DOMAIN m : m[i].key = h

Get(m, h) == m[CHOOSE i \in DOMAIN m : m[i].key = h].value

\* mutant: a list append where the code assigns into the dict
Put_append(m, h, v) == Append(m, [key |-> h, value |-> v])

\* self.merged[hash] = value
Put(m, h, v) ==
    IF Has(m, h)
    THEN [i \in DOMAIN m |-> IF m[i].key = h THEN [key |-> h, value |-> v] ELSE m[i]]
    ELSE Append(m, [key |-> h, value |-> v])

\* props['idx'] = idx
WithIdx(props, idx) == ("idx" :> idx) @@ props

IsError(props) == "error" \in DOMAIN props

\* history: the first entry stored under each hash in the running pass
Own(o, h, idx, v) ==
    IF h \in DOMAIN o THEN o ELSE o @@ (h :> [idx |-> idx, value |-> v])

(***************************************************************************)
(* load(fp)                                                                *)
(***************************************************************************)
Load(fp) ==
    /\ pc = "idle"
    /\ nloads < MaxLoads
    /\ rings' = LoadRings(rings, fp)
    /\ index' = LoadIndex(index, fp)
    /\ nloads' = nloads + 1
    /\ extracted' = extracted + Len(Extract(Files[fp]))
    /\ UNCHANGED <<merged, flip, pc, propertyname, cur, meshlines, li, passes,
                   owner, arg, ret>>

(***************************************************************************)
(* build_linework(propertyname), one step per loop iteration               *)
(***************************************************************************)
BuildStart(name) ==
    /\ pc = "idle"
    /\ Len(passes) < MaxBuilds
    /\ pc' = "ring"
    /\ propertyname' = name
    /\ cur' = 0
    /\ owner' = <<>>
    /\ UNCHANGED <<rings, index, merged, flip, meshlines, li, nloads, extracted,
                   passes, arg, ret>>

\* mutant: only the first candidate is looked at
IsIsolated_firstonly(others, idx) == others[1].id = idx

\* "len(others) == 1 and others[0]['id'] == idx"
IsIsolated(others, idx) == Len(others) = 1 /\ others[1].id = idx

\* the if-branch: the ring has no neighbour
IsolatedRing ==
    /\ pc = "ring"
    /\ cur \in DOMAIN rings
    /\ LET idx == cur
           ring == rings[idx]
           others == _intersects(ring)
           c == _get_center(ring)
           hash == _get_md5_hash(wkt(c))
           props == _get_left_right(hash, ring, propertyname)
           value == [geometry |-> ring, properties |-> WithIdx(props, idx)]
       IN  /\ IsIsolated(others, idx)
           /\ IF IsError(props)
              THEN pc' = "idle" /\ UNCHANGED <<merged, owner, cur>>
              ELSE /\ merged' = Put(merged, hash, value)
                   /\ owner' = Own(owner, hash, idx, value)
                   /\ cur' = cur + 1
                   /\ pc' = "ring"
    /\ UNCHANGED <<rings, index, flip, propertyname, meshlines, li, nloads,
                   extracted, passes, arg, ret>>

\* the else-branch up to its loop: union and merge the neighbours' rings
SharedRing ==
    /\ pc = "ring"
    /\ cur \in DOMAIN rings
    /\ LET idx == cur
           ring == rings[idx]
           others == _intersects(ring)
           rings_to_merge == [k \in DOMAIN others |-> rings[others[k].id]]
           lines_to_merge == unary_union(rings_to_merge)
       IN  /\ ~IsIsolated(others, idx)
           /\ meshlines' = _linemerge(lines_to_merge)
    /\ li' = 1
    /\ pc' = "line"
    /\ UNCHANGED <<rings, index, merged, flip, propertyname, cur, nloads,
                   extracted, passes, owner, arg, ret>>

\* mutant: the "hash not in self.merged" test left out
Accept_nodedup(hash, ring, meshline) ==
    /\ intersects_buffer(ring, _get_center(meshline), BUFFER)
    /\ intersects_point(ring, meshline[1])
    /\ intersects_point(ring, meshline[Len(meshline)])

\* mutant: the test against the disc around the center left out
Accept_nobuffer(hash, ring, meshline) ==
    /\ ~Has(merged, hash)
    /\ intersects_point(ring, meshline[1])
    /\ intersects_point(ring, meshline[Len(meshline)])

\* the two nested ifs of the else-branch
Accept(hash, ring, meshline) ==
    LET center_point == _get_center(meshline)
        first_point == meshline[1]
        last_point == meshline[Len(meshline)]
    IN  /\ ~Has(merged, hash)
        /\ intersects_buffer(ring, center_point, BUFFER)
        /\ intersects_point(ring, first_point)
        /\ intersects_point(ring, last_point)

\* after a meshline: the next one, or the next ring
Advance ==
    IF li < Len(meshlines)
    THEN li' = li + 1 /\ UNCHANGED <<pc, cur, meshlines>>
    ELSE pc' = "ring" /\ cur' = cur + 1 /\ li' = 0 /\ meshlines' = <<>>

\* one meshline that passes both ifs
AcceptLine ==
    /\ pc = "line"
    /\ li \in DOMAIN meshlines
    /\ LET idx == cur
           ring == rings[idx]
           meshline == meshlines[li]
           hash == _get_md5_hash(wkt(_get_center(meshline)))
           props == _get_left_right(hash, meshline, propertyname)
           value == [geometry |-> meshline, properties |-> WithIdx(props, idx)]
       IN  /\ Accept(hash, ring, meshline)
           /\ IF IsError(props)
              THEN pc' = "idle" /\ UNCHANGED <<merged, owner, cur, li, meshlines>>
              ELSE /\ merged' = Put(merged, hash, value)
                   /\ owner' = Own(owner, hash, idx, value)
                   /\ Advance
    /\ UNCHANGED <<rings, index, flip, propertyname, nloads, extracted, passes,
                   arg, ret>>

\* one meshline that fails an if
SkipLine ==
    /\ pc = "line"
    /\ li \in DOMAIN meshlines
    /\ LET meshline == meshlines[li]
           hash == _get_md5_hash(wkt(_get_center(meshline)))
       IN  ~Accept(hash, rings[cur], meshline)
    /\ Advance
    /\ UNCHANGED <<rings, index, merged, flip, propertyname, nloads, extracted,
                   passes, owner, arg, ret>>

\* the loop over self.rings.items() is exhausted
BuildDone ==
    /\ pc = "ring"
    /\ cur \notin DOMAIN rings
    /\ pc' = "idle"
    /\ passes' = Append(passes, [propertyname |-> propertyname,
                                 nloads |-> nloads,
                                 merged |-> merged])
    /\ UNCHANGED <<rings, index, merged, flip, propertyname, cur, meshlines, li,
                   nloads, extracted, owner, arg, ret>>

Init ==
    /\ rings = <<>>
    /\ index = <<>>
    /\ merged = <<>>
    /\ flip \in BOOLEAN
    /\ pc = "idle"
    /\ propertyname = "NAME"
    /\ cur = 0
    /\ meshlines = <<>>
    /\ li = 0
    /\ nloads = 0
    /\ extracted = 0
    /\ passes = <<>>
    /\ owner = <<>>
    /\ arg = <<>>
    /\ ret = <<>>

Next ==
    \/ \E fp \in FileNames : Load(fp)
    \/ \E name \in PropertyNames : BuildStart(name)
    \/ IsolatedRing
    \/ SharedRing
    \/ AcceptLine
    \/ SkipLine
    \/ BuildDone

Spec == Init /\ [][Next]_vars

(***************************************************************************)
(* The sampling functions applied to any line: the builder holds one       *)
(* loaded file, arg is a rectilinear line of 2..MaxLineLen vertices on the *)
(* grid, and _line_center_sample and _get_left_right are called on it.     *)
(***************************************************************************)
GridPts == {Pt(x, y) : x \in 0..GridW, y \in 0..GridH}

Lines ==
    {s \in UNION {[1..n -> GridPts] : n \in 2..MaxLineLen} :
        \A i \in 1..(Len(s) - 1) :
            s[i] # s[i + 1] /\ (s[i][1] = s[i + 1][1] \/ s[i][2] = s[i + 1][2])}

InitFn ==
    /\ \E fp \in FileNames :
        /\ rings = LoadRings(<<>>, fp)
        /\ index = LoadIndex(<<>>, fp)
        /\ extracted = Len(Extract(Files[fp]))
    /\ nloads = 1
    /\ merged = <<>>
    /\ flip = FALSE
    /\ pc = "call"
    /\ propertyname = "NAME"
    /\ cur = 0
    /\ meshlines = <<>>
    /\ li = 0
    /\ passes = <<>>
    /\ owner = <<>>
    /\ arg \in Lines
    /\ ret = <<>>

\* center_sample = self._line_center_sample(line)
Sample ==
    /\ pc = "call"
    /\ ret' = [sample |-> _line_center_sample(arg)]
    /\ pc' = "sampled"
    /\ UNCHANGED <<rings, index, merged, flip, propertyname, cur, meshlines, li,
                   nloads, extracted, passes, owner, arg>>

\* self._get_left_right on the line and on the line reversed
LeftRight ==
    /\ pc = "sampled"
    /\ ret' = [sample |-> ret.sample,
               lr |-> _get_left_right("h", arg, propertyname),
               lrRev |-> _get_left_right("h", Reverse(arg), propertyname)]
    /\ pc' = "returned"
    /\ UNCHANGED <<rings, index, merged, flip, propertyname, cur, meshlines, li,
                   nloads, extracted, passes, owner, arg>>

NextFn == Sample \/ LeftRight

SpecFn == InitFn /\ [][NextFn]_vars

(***************************************************************************)
(* Properties.                                                             *)
(***************************************************************************)
Entries(m) == {m[i] : i \in DOMAIN m}

\* the part of a line's coordinates that the grid edges e cover exactly
Covers(line, e) == UnitEdges(<<line>>) = e

Closed(line) == line[1] = line[Len(line)]

\* the property name of the first pass that ran over the present load
FirstName == passes[SetMin({i \in DOMAIN passes : passes[i].nloads = nloads})].propertyname

\* a build pass has finished over the one file fp, loaded alone
BuiltAlone(fp) ==
    /\ pc = "idle"
    /\ nloads = 1
    /\ rings = LoadRings(<<>>, fp)
    /\ index = LoadIndex(<<>>, fp)
    /\ \E i \in DOMAIN passes : passes[i].nloads = 1

\* C1: after any sequence of load calls, RingStore holds one ring per ring
\* ever extracted, under the dense ids 0..n-1, n the total number extracted
\* over all calls (ids keep incrementing across calls).
C1_DenseIdsAcrossLoads == DOMAIN rings = 0..(extracted - 1)

\* C2: a second build pass with the same property name over the same loaded
\* state leaves LineworkStore as the first left it: the same hashes in the
\* same order with the same geometry and attributes.
C2_BuildIdempotent ==
    \A i \in 1..(Len(passes) - 1) :
        (passes[i].propertyname = passes[i + 1].propertyname
         /\ passes[i].nloads = passes[i + 1].nloads)
        => passes[i + 1].merged = passes[i].merged

C2_TwoPasses ==
    /\ Len(passes) >= 2
    /\ passes[1].propertyname = passes[2].propertyname
    /\ passes[1].nloads = passes[2].nloads
    /\ Len(passes[2].merged) >= 2
    /\ \E e \in Entries(passes[2].merged) :
        e.value.geometry = rings[e.value.properties["idx"]]

\* C3: within a pass, the entry a ring stored first under a hash is never
\* changed by a ring processed later, so the entry's idx is the id of the
\* earliest ring that stored under that hash.
C3_EarliestRingOwns ==
    \A h \in DOMAIN owner :
        /\ Has(merged, h)
        /\ Get(merged, h) = owner[h].value
        /\ Get(merged, h).properties["idx"] = owner[h].idx

C3_LaterRingMetOwnedEdge ==
    /\ pc = "idle"
    /\ Len(passes) >= 1
    /\ \E h \in DOMAIN owner : \E id \in DOMAIN rings :
        LET line == owner[h].value.geometry IN
        /\ id > owner[h].idx
        /\ intersects_buffer(rings[id], _get_center(line), BUFFER)
        /\ intersects_point(rings[id], line[1])
        /\ intersects_point(rings[id], line[Len(line)])

\* C4: two unit squares side by side, loaded together and built, give exactly
\* three edges: one for the shared boundary, with the two squares' values on
\* its sides and the first square's ring id as idx, and one for the rest of
\* each square's boundary.
C4_SharedEdgeStoredOnce ==
    BuiltAlone("squares") =>
        LET l == "left_" \o lower(FirstName)
            r == "right_" \o lower(FirstName)
            a == Files.squares[1].properties[FirstName]
            b == Files.squares[2].properties[FirstName]
            edge == UnitEdges(<<<<Pt(1, 0), Pt(1, 1)>>>>)
            shared == {e \in Entries(merged) : Covers(e.value.geometry, edge)}
            restA == {e \in Entries(merged) :
                        Covers(e.value.geometry, UnitEdges(<<SquareA.exterior>>) \ edge)}
            restB == {e \in Entries(merged) :
                        Covers(e.value.geometry, UnitEdges(<<SquareB.exterior>>) \ edge)}
        IN  /\ Len(merged) = 3
            /\ Cardinality(shared) = 1
            /\ Cardinality(restA) = 1
            /\ Cardinality(restB) = 1
            /\ \A e \in shared :
                /\ {e.value.properties[l], e.value.properties[r]} = {a, b}
                /\ e.value.properties["idx"] = 0

C4_SquaresBuilt == BuiltAlone("squares") /\ Len(merged) = 3

\* C5: one polygon with one hole, loaded alone and built, gives exactly two
\* edges, the closed exterior ring and the closed hole ring, each with the
\* polygon's value on exactly one side and null on the other.
C5_HoledPolygonTwoEdges ==
    BuiltAlone("holed") =>
        LET l == "left_" \o lower(FirstName)
            r == "right_" \o lower(FirstName)
            v == Files.holed[1].properties[FirstName]
            shell == {e \in Entries(merged) :
                        Closed(e.value.geometry)
                        /\ Covers(e.value.geometry, UnitEdges(<<Holed.exterior>>))}
            hole == {e \in Entries(merged) :
                        Closed(e.value.geometry)
                        /\ Covers(e.value.geometry, UnitEdges(<<Holed.interiors[1]>>))}
        IN  /\ Len(merged) = 2
            /\ Cardinality(shell) = 1
            /\ Cardinality(hole) = 1
            /\ \A e \in Entries(merged) :
                \/ e.value.properties[l] = v /\ e.value.properties[r] = None
                \/ e.value.properties[l] = None /\ e.value.properties[r] = v

C5_HoledBuilt == BuiltAlone("holed") /\ Len(merged) = 2

\* C6: _line_center_sample returns a two-vertex line unchanged, and for a
\* longer line the segment [vertex[i-1], vertex[i]], i the smallest vertex
\* index whose cumulative distance from the start exceeds half the length;
\* it returns a segment for every line of positive length.
C6_HalfLengthSample ==
    pc \in {"sampled", "returned"} =>
        IF Len(arg) = 2 THEN ret.sample = arg
        ELSE LET i == SetMin({k \in DOMAIN arg : 2 * CumLen(arg, k) > length(arg)})
             IN  ret.sample = <<arg[i - 1], arg[i]>>

\* C7: for every line for which a sample exists in both directions, the
\* reversed line's left value is the line's right value and its right value
\* the line's left value.
C7_ReversalSwapsSides ==
    (pc = "returned" /\ ~IsError(ret.lr) /\ ~IsError(ret.lrRev)) =>
        /\ ret.lrRev["left_name"] = ret.lr["right_name"]
        /\ ret.lrRev["right_name"] = ret.lr["left_name"]

\* C8: a later load never replaces or removes a stored ring, the index holds
\* exactly one entry per stored ring, and every entry's id names the stored
\* ring whose bounding box the entry was inserted with.
C8_RingsAndEntriesOneToOne ==
    [][/\ \A id \in DOMAIN rings : id \in DOMAIN rings' /\ rings'[id] = rings[id]
       /\ Len(index') = Cardinality(DOMAIN rings')
       /\ \A k \in DOMAIN index' :
            /\ index'[k].id \in DOMAIN rings'
            /\ index'[k].bounds = bounds(rings'[index'[k].id])]_vars

\* C9: a candidate line whose hash is already stored, or whose center disc
\* the current ring misses, or with an endpoint off the current ring, leaves
\* LineworkStore unchanged.
C9_RejectedLineLeavesStore ==
    [][(/\ pc = "line"
        /\ li \in DOMAIN meshlines
        /\ LET line == meshlines[li]
               c == _get_center(line)
           IN  \/ Has(merged, _get_md5_hash(wkt(c)))
               \/ ~intersects_buffer(rings[cur], c, BUFFER)
               \/ ~OnLine(line[1], rings[cur])
               \/ ~OnLine(line[Len(line)], rings[cur]))
       => merged' = merged]_vars

C9_LinesWereRejected ==
    /\ pc = "line"
    /\ Len(merged) >= 1
    /\ \E j \in 1..(li - 1) :
        ~intersects_buffer(rings[cur], _get_center(meshlines[j]), BUFFER)
    /\ \E k \in 1..(li - 1) :
        LET h == _get_md5_hash(wkt(_get_center(meshlines[k]))) IN
        /\ intersects_buffer(rings[cur], _get_center(meshlines[k]), BUFFER)
        /\ Has(merged, h)
        /\ Get(merged, h).properties["idx"] # cur

\* C10: a ring goes through the isolated branch only when the neighbour
\* query gives exactly one entry, with the ring's own id; no ring of a
\* polygon with a hole whose box meets the ring's box goes through it.
C10_IsolatedOnlyWhenAlone ==
    [][(pc = "ring" /\ pc' = "ring" /\ cur' = cur + 1) =>
        LET others == _intersects(rings[cur]) IN
        /\ Len(others) = 1
        /\ others[1].id = cur
        /\ \A k \in DOMAIN index :
            LET poly == index[k].obj.geometry IN
            (\E r \in DOMAIN PolygonRings(poly) : PolygonRings(poly)[r] = rings[cur])
            => \A h \in DOMAIN poly.interiors :
                ~BoxIntersects(bounds(poly.interiors[h]), bounds(rings[cur]))]_vars

C10_IsolatedBranchTaken ==
    /\ pc = "ring"
    /\ cur > 0
    /\ Len(_intersects(rings[cur - 1])) = 1
    /\ \E e \in Entries(merged) :
        e.value.properties["idx"] = cur - 1 /\ e.value.geometry = rings[cur - 1]
    /\ \E k \in DOMAIN index : index[k].obj.geometry.interiors # <<>>

====
